---- MODULE Spec2Model ----
(***************************************************************************)
(* Model of the Fisia signal pipeline (sandrohr95/Fisia, Fisia/src):       *)
(*   angle_calculations.py        get_keypoint_coordinates, calculate_angle,*)
(*                                calculate_movement_angles,               *)
(*                                calculate_distance,                      *)
(*                                calculate_movement_positions,            *)
(*                                calculate_statistics_variables           *)
(*   utils.py                     clean_time_series, normalize_time_series *)
(*   time_series_segmentation.py  segment_series                           *)
(*                                                                         *)
(* Every function is pure.  A behaviour is one call chain: Init draws the  *)
(* function called first and its arguments, one action applies each        *)
(* function to them.  Three chains are modelled, following the data flow   *)
(* of the pipeline:                                                        *)
(*   frames --calculate_movement_angles/positions--> series                *)
(*          --clean_time_series--> clean_ts                                *)
(*   angles --normalize_time_series--> norm_angles                         *)
(*   data, peaks, valleys --segment_series--> segments                     *)
(*          --calculate_statistics_variables--> stats                      *)
(* Smoothing (scipy savgol_filter) and detection (scipy find_peaks) are    *)
(* library code; the detector's output is drawn as any pair of strictly    *)
(* increasing in-bounds index lists, the empty list included.              *)
(*                                                                         *)
(* Value encodings                                                         *)
(*   None                <<>>                                              *)
(*   an angle            <<"angle", dot, sq>>: arccos(dot/sqrt(sq)) degrees *)
(*                       with sq = |v1|^2 * |v2|^2; sq = 0 is the NaN that *)
(*                       numpy's 0/0 gives                                  *)
(*   a distance          <<"distance", sq>>: sqrt(sq)                      *)
(*   a quotient of ints  <<num, den>>; <<0, 0>> is NaN (numpy 0/0)         *)
(***************************************************************************)
EXTENDS Integers, Sequences, FiniteSets, TLC

VARIABLES
    fn,                    \* the function the chain is at
    pc,                    \* "call" (about to run), "return", "raise"
    exc,                   \* the exception raised, "none" otherwise
    \* segment_series
    data, peaks, valleys, expected_reps,
    repaired,              \* the local list `valleys` after lines 19-30
    segments,              \* the returned list
    \* calculate_statistics_variables
    stats,
    \* calculate_movement_angles / calculate_movement_positions
    all_frames_keypoints, names,
    series,                \* the returned angles / distances
    \* clean_time_series
    clean_ts,
    \* normalize_time_series
    angles, norm_angles

vars == <<fn, pc, exc, data, peaks, valleys, expected_reps, repaired, segments,
          stats, all_frames_keypoints, names, series, clean_ts, angles,
          norm_angles>>

-----------------------------------------------------------------------------
(* Bounds of the model *)

MaxLen == 4          \* longest drawn series (data, angles)
MaxReps == 3         \* largest drawn expected_reps
MaxFrames == 2       \* longest drawn frame sequence

(* Sample values of a series; the scenarios of the specification use them. *)
Values == {10, 20}

None == <<>>

-----------------------------------------------------------------------------
(* Python sequence helpers *)

Min2(a, b) == IF a <= b THEN a ELSE b
Max2(a, b) == IF a >= b THEN a ELSE b

(* s[a:b], 0-based, with Python's wrapping of negative bounds and clamping *)
SliceBound(n, k) == IF k < 0 THEN Max2(k + n, 0) ELSE Min2(k, n)

(* Variant: the end bound taken as inclusive *)
SliceInclusive(s, a, b) ==
    LET lo == SliceBound(Len(s), a)
        hi == SliceBound(Len(s), b + 1)
    IN  IF hi <= lo THEN <<>> ELSE SubSeq(s, lo + 1, hi)

Slice(s, a, b) ==
    LET lo == SliceBound(Len(s), a)
        hi == SliceBound(Len(s), b)
    IN  IF hi <= lo THEN <<>> ELSE SubSeq(s, lo + 1, hi)

(* list.insert(0, x) *)
Insert0(s, x) == <<x>> \o s

Last(s) == s[Len(s)]

RECURSIVE SeqSum(_)
SeqSum(s) == IF s = <<>> THEN 0 ELSE s[1] + SeqSum(Tail(s))

RECURSIVE SeqMin(_)
SeqMin(s) == IF Len(s) = 1 THEN s[1] ELSE Min2(s[1], SeqMin(Tail(s)))

RECURSIVE SeqMax(_)
SeqMax(s) == IF Len(s) = 1 THEN s[1] ELSE Max2(s[1], SeqMax(Tail(s)))

Abs(x) == IF x < 0 THEN -x ELSE x

-----------------------------------------------------------------------------
(* time_series_segmentation.py: segment_series *)

(* Variant: >= in place of > *)
PrependStartOrEqual(v, p) == IF v[1] >= p[1] THEN Insert0(v, 0) ELSE v

(* lines 22-25: if valleys[0] > peaks[0]: valleys.insert(0, 0) *)
PrependStart(v, p) == IF v[1] > p[1] THEN Insert0(v, 0) ELSE v

(* Variant: len(data) appended in place of len(data) - 1 *)
AppendEndLen(v, p, d) == IF Last(v) < Last(p) THEN Append(v, Len(d)) ELSE v

(* lines 28-30: if valleys[-1] < peaks[-1]: valleys.append(len(data) - 1) *)
AppendEnd(v, p, d) == IF Last(v) < Last(p) THEN Append(v, Len(d) - 1) ELSE v

(* Variant: each segment runs one sample into the next *)
BuildSegmentsOverlap(d, v) ==
    [i \in 1..(Len(v) - 1) |-> Slice(d, v[i], v[i + 1] + 1)]

(* line 33 (and 38): [data[valleys[i]:valleys[i + 1]] for i in range(len(valleys) - 1)] *)
BuildSegments(d, v) ==
    [i \in 1..(Len(v) - 1) |-> Slice(d, v[i], v[i + 1])]

(* Variant: a remediation that acts, here by cutting the list to expected_reps *)
RemediateTruncate(d, v, segs, reps) ==
    IF Len(segs) < reps THEN BuildSegments(d, v) ELSE SubSeq(segs, 1, reps)

(* lines 36-38: the remediation step, which builds the same list again *)
Remediate(d, v, segs, reps) ==
    IF Len(segs) < reps THEN BuildSegments(d, v) ELSE segs

(* Variant: an empty peak or valley list answered with an empty result *)
segment_series_empty_result(d, p, v, reps) ==
    IF v = <<>> \/ p = <<>>
    THEN [exc |-> "none", valleys |-> v, segments |-> <<>>]
    ELSE LET v1 == PrependStart(v, p)
             v2 == AppendEnd(v1, p, d)
             segs == BuildSegments(d, v2)
         IN  [exc |-> "none", valleys |-> v2,
              segments |-> Remediate(d, v2, segs, reps)]

(* lines 19-40.  valleys[0] and peaks[0] raise IndexError on an empty list. *)
segment_series(d, p, v, reps) ==
    IF v = <<>> \/ p = <<>>
    THEN [exc |-> "IndexError", valleys |-> v, segments |-> <<>>]
    ELSE LET v1 == PrependStart(v, p)
             v2 == AppendEnd(v1, p, d)
             segs == BuildSegments(d, v2)
         IN  [exc |-> "none", valleys |-> v2,
              segments |-> Remediate(d, v2, segs, reps)]

-----------------------------------------------------------------------------
(* angle_calculations.py: geometry and per-frame series *)

(* Variant: return None placed inside the loop, so only the first item is read *)
get_keypoint_first_item(frame, name) ==
    IF frame = <<>> THEN None
    ELSE IF frame[1].name = name THEN <<frame[1].x, frame[1].y>>
    ELSE None

(* lines 6-11: the coordinates of the first item named `name`, else None *)
RECURSIVE get_keypoint_coordinates(_, _)
get_keypoint_coordinates(frame, name) ==
    IF frame = <<>> THEN None
    ELSE IF frame[1].name = name THEN <<frame[1].x, frame[1].y>>
    ELSE get_keypoint_coordinates(Tail(frame), name)

(* lines 14-27: the angle at p2; dot/(mag1*mag2) is kept as dot and
   (mag1*mag2)^2, and a zero magnitude gives NaN, not an exception *)
calculate_angle(p1, p2, p3) ==
    LET v1 == <<p1[1] - p2[1], p1[2] - p2[2]>>
        v2 == <<p3[1] - p2[1], p3[2] - p2[2]>>
        dot_prod == v1[1] * v2[1] + v1[2] * v2[2]
        sq1 == v1[1] * v1[1] + v1[2] * v1[2]
        sq2 == v2[1] * v2[1] + v2[2] * v2[2]
    IN  <<"angle", dot_prod, sq1 * sq2>>

(* lines 47-57: one frame of calculate_movement_angles *)
FrameAngle(frame, first_keypoint, second_keypoint, thrid_keypoint) ==
    LET thrid == get_keypoint_coordinates(frame, thrid_keypoint)
        second == get_keypoint_coordinates(frame, second_keypoint)
        first == get_keypoint_coordinates(frame, first_keypoint)
    IN  IF thrid # None /\ second # None /\ first # None
        THEN calculate_angle(first, second, thrid)
        ELSE None

(* lines 45-57: the loop over the frames, one append per frame *)
RECURSIVE AnglesLoop(_, _, _, _, _)
AnglesLoop(frames, first_keypoint, second_keypoint, thrid_keypoint, acc) ==
    IF frames = <<>> THEN acc
    ELSE AnglesLoop(Tail(frames), first_keypoint, second_keypoint, thrid_keypoint,
                    Append(acc, FrameAngle(frames[1], first_keypoint,
                                           second_keypoint, thrid_keypoint)))

(* lines 44-59 *)
calculate_movement_angles(frames, first_keypoint, second_keypoint, thrid_keypoint) ==
    AnglesLoop(frames, first_keypoint, second_keypoint, thrid_keypoint, <<>>)

(* lines 62-74: the Euclidean norm of keypoint1 - keypoint2, kept squared *)
calculate_distance(keypoint1, keypoint2) ==
    LET dx == keypoint1[1] - keypoint2[1]
        dy == keypoint1[2] - keypoint2[2]
    IN  <<"distance", dx * dx + dy * dy>>

(* lines 80-87: one frame of calculate_movement_positions *)
FrameDistance(frame, keypoint1, keypoint2) ==
    LET first == get_keypoint_coordinates(frame, keypoint1)
        second == get_keypoint_coordinates(frame, keypoint2)
    IN  IF second # None /\ first # None
        THEN calculate_distance(first, second)
        ELSE None

(* lines 79-87: the loop over the frames, one append per frame *)
RECURSIVE DistancesLoop(_, _, _, _)
DistancesLoop(frames, keypoint1, keypoint2, acc) ==
    IF frames = <<>> THEN acc
    ELSE DistancesLoop(Tail(frames), keypoint1, keypoint2,
                       Append(acc, FrameDistance(frames[1], keypoint1, keypoint2)))

(* lines 78-89 *)
calculate_movement_positions(frames, keypoint1, keypoint2) ==
    DistancesLoop(frames, keypoint1, keypoint2, <<>>)

-----------------------------------------------------------------------------
(* utils.py: conditioning *)

(* Variant: `if angle` in place of `if angle is not None`, which also drops 0.0 *)
IsZero(a) ==
    \/ a[1] = "distance" /\ a[2] = 0
    \/ a[1] = "angle" /\ a[2] > 0 /\ a[2] * a[2] = a[3]

clean_time_series_truthy(ts) ==
    SelectSeq(ts, LAMBDA angle : angle # None /\ ~IsZero(angle))

(* line 113: [angle for angle in ts if angle is not None] *)
clean_time_series(ts) == SelectSeq(ts, LAMBDA angle : angle # None)

(* line 152: (angles - np.min(angles)) / (np.max(angles) - np.min(angles)).
   np.min of an empty array raises ValueError; a zero range divides 0 by 0,
   which numpy answers with NaN and a warning, not with an exception. *)
normalize_time_series(a) ==
    IF a = <<>>
    THEN [exc |-> "ValueError", value |-> <<>>]
    ELSE LET lo == SeqMin(a)
             hi == SeqMax(a)
         IN  [exc |-> "none",
              value |-> [i \in 1..Len(a) |-> <<a[i] - lo, hi - lo>>]]

-----------------------------------------------------------------------------
(* angle_calculations.py: calculate_statistics_variables *)

(* line 109: np.sum(np.abs(np.diff(segment))) *)
TotalDisplacement(segment) ==
    SeqSum([i \in 1..(Len(segment) - 1) |-> Abs(segment[i + 1] - segment[i])])

(* Variant: 'Repetition': index in place of index + 1 *)
SegmentStatsZeroBased(index, segment) ==
    LET n == Len(segment)
        total == SeqSum(segment)
        squares == SeqSum([i \in 1..n |-> segment[i] * segment[i]])
    IN  [Repetition |-> index,
         min |-> SeqMin(segment),
         max |-> SeqMax(segment),
         duration |-> n,
         mean |-> <<total, n>>,
         range |-> SeqMax(segment) - SeqMin(segment),
         variance |-> <<n * squares - total * total, n * n>>,
         TotalDisplacement |-> TotalDisplacement(segment)]

(* lines 123-141: the record of one segment.  Kept are the entries that are
   integers or quotients of integers; mean and variance are quotients. *)
SegmentStats(index, segment) ==
    LET n == Len(segment)
        total == SeqSum(segment)
        squares == SeqSum([i \in 1..n |-> segment[i] * segment[i]])
    IN  [Repetition |-> index + 1,
         min |-> SeqMin(segment),
         max |-> SeqMax(segment),
         duration |-> n,
         mean |-> <<total, n>>,
         range |-> SeqMax(segment) - SeqMin(segment),
         variance |-> <<n * squares - total * total, n * n>>,
         TotalDisplacement |-> TotalDisplacement(segment)]

(* lines 104-141: the loop of enumerate(segments), index counting from 0 *)
RECURSIVE StatsLoop(_, _, _)
StatsLoop(segs, index, acc) ==
    IF segs = <<>> THEN acc
    ELSE StatsLoop(Tail(segs), index + 1, Append(acc, SegmentStats(index, segs[1])))

(* lines 103-142.  np.min of an empty segment raises ValueError (zero-size
   array), which ends the call with no list returned. *)
calculate_statistics_variables(segs) ==
    IF \E k \in 1..Len(segs) : segs[k] = <<>>
    THEN [exc |-> "ValueError", value |-> <<>>]
    ELSE [exc |-> "none", value |-> StatsLoop(segs, 0, <<>>)]

-----------------------------------------------------------------------------
(* The arguments drawn *)

SeqsUpTo(S, n) == UNION {[1..k -> S] : k \in 0..n}

(* PeakSet / ValleySet of a series of length n as find_peaks returns them:
   strictly increasing indices in 0..n-1, possibly none *)
IndexLists(n) ==
    {s \in SeqsUpTo(0..(n - 1), n) : \A i \in 1..(Len(s) - 1) : s[i] < s[i + 1]}

(* End-to-end scenario 1 of the specification *)
Scenario1 ==
    [data |-> <<10, 20, 30, 20, 10, 20, 30, 20, 10>>,
     peaks |-> <<2, 6>>, valleys |-> <<0, 4, 8>>, expected_reps |-> 2]

SegmentInputs ==
    {Scenario1} \cup
    UNION {[data : {d}, peaks : IndexLists(Len(d)), valleys : IndexLists(Len(d)),
            expected_reps : 0..MaxReps] : d \in SeqsUpTo(Values, MaxLen)}

(* End-to-end scenario 2 of the specification: a constant series *)
Scenario2 == <<5, 5, 5, 5, 5>>

NormalizeInputs == {Scenario2} \cup SeqsUpTo(Values, MaxLen)

(* Frames as the pose extractor lists them: each named keypoint at most once,
   in a fixed order, at one of the sample coordinates or absent *)
KeypointNames == <<"left_hip", "left_knee", "left_ankle">>
Coords == {<<0, 0>>, <<1, 0>>}

RECURSIVE FrameFrom(_, _)
FrameFrom(f, i) ==
    IF i > Len(KeypointNames) THEN <<>>
    ELSE (IF f[i] = None THEN <<>>
          ELSE <<[name |-> KeypointNames[i], x |-> f[i][1], y |-> f[i][2]]>>)
         \o FrameFrom(f, i + 1)

FrameSet ==
    {FrameFrom(f, 1) : f \in [1..Len(KeypointNames) -> Coords \cup {None}]}

NameTriples ==
    {<<"left_hip", "left_knee", "left_ankle">>,
     <<"left_knee", "left_ankle", "left_hip">>}

-----------------------------------------------------------------------------
(* The calls *)

Init ==
    /\ pc = "call"
    /\ exc = "none"
    /\ repaired = <<>>
    /\ segments = <<>>
    /\ stats = <<>>
    /\ series = <<>>
    /\ clean_ts = <<>>
    /\ norm_angles = <<>>
    /\ \/ /\ fn = "segment_series"
          /\ \E inp \in SegmentInputs :
                /\ data = inp.data
                /\ peaks = inp.peaks
                /\ valleys = inp.valleys
                /\ expected_reps = inp.expected_reps
          /\ all_frames_keypoints = <<>>
          /\ names = <<>>
          /\ angles = <<>>
       \/ /\ fn \in {"calculate_movement_angles", "calculate_movement_positions"}
          /\ all_frames_keypoints \in SeqsUpTo(FrameSet, MaxFrames)
          /\ names \in NameTriples
          /\ data = <<>>
          /\ peaks = <<>>
          /\ valleys = <<>>
          /\ expected_reps = 0
          /\ angles = <<>>
       \/ /\ fn = "normalize_time_series"
          /\ angles \in NormalizeInputs
          /\ data = <<>>
          /\ peaks = <<>>
          /\ valleys = <<>>
          /\ expected_reps = 0
          /\ all_frames_keypoints = <<>>
          /\ names = <<>>

Outcome(e) == IF e = "none" THEN "return" ELSE "raise"

(* segment_series(data, peaks, valleys, expected_reps) *)
SegmentSeries ==
    /\ fn = "segment_series"
    /\ pc = "call"
    /\ LET r == segment_series(data, peaks, valleys, expected_reps)
       IN  /\ repaired' = r.valleys
           /\ segments' = r.segments
           /\ exc' = r.exc
           /\ pc' = Outcome(r.exc)
    /\ UNCHANGED <<fn, data, peaks, valleys, expected_reps, stats,
                   all_frames_keypoints, names, series, clean_ts, angles,
                   norm_angles>>

(* A second call of segment_series on the same data, peaks and valleys with
   another expected_reps *)
SegmentSeriesAgain ==
    /\ fn = "segment_series"
    /\ pc \in {"return", "raise"}
    /\ \E e \in 0..MaxReps :
          /\ e # expected_reps
          /\ expected_reps' = e
          /\ LET r == segment_series(data, peaks, valleys, e)
             IN  /\ repaired' = r.valleys
                 /\ segments' = r.segments
                 /\ exc' = r.exc
                 /\ pc' = Outcome(r.exc)
    /\ UNCHANGED <<fn, data, peaks, valleys, stats, all_frames_keypoints, names,
                   series, clean_ts, angles, norm_angles>>

(* calculate_statistics_variables(segments) on the list segment_series
   returned *)
CalculateStatisticsVariables ==
    /\ fn = "segment_series"
    /\ pc = "return"
    /\ fn' = "calculate_statistics_variables"
    /\ LET r == calculate_statistics_variables(segments)
       IN  /\ stats' = r.value
           /\ exc' = r.exc
           /\ pc' = Outcome(r.exc)
    /\ UNCHANGED <<data, peaks, valleys, expected_reps, repaired, segments,
                   all_frames_keypoints, names, series, clean_ts, angles,
                   norm_angles>>

(* calculate_movement_angles(all_frames_keypoints, names[0], names[1], names[2]) *)
CalculateMovementAngles ==
    /\ fn = "calculate_movement_angles"
    /\ pc = "call"
    /\ series' = calculate_movement_angles(all_frames_keypoints,
                                           names[1], names[2], names[3])
    /\ pc' = "return"
    /\ UNCHANGED <<fn, exc, data, peaks, valleys, expected_reps, repaired,
                   segments, stats, all_frames_keypoints, names, clean_ts,
                   angles, norm_angles>>

(* calculate_movement_positions(all_frames_keypoints, names[0], names[1]) *)
CalculateMovementPositions ==
    /\ fn = "calculate_movement_positions"
    /\ pc = "call"
    /\ series' = calculate_movement_positions(all_frames_keypoints,
                                              names[1], names[2])
    /\ pc' = "return"
    /\ UNCHANGED <<fn, exc, data, peaks, valleys, expected_reps, repaired,
                   segments, stats, all_frames_keypoints, names, clean_ts,
                   angles, norm_angles>>

(* clean_time_series(series) on the series a movement function returned *)
CleanTimeSeries ==
    /\ fn \in {"calculate_movement_angles", "calculate_movement_positions"}
    /\ pc = "return"
    /\ fn' = "clean_time_series"
    /\ clean_ts' = clean_time_series(series)
    /\ UNCHANGED <<pc, exc, data, peaks, valleys, expected_reps, repaired,
                   segments, stats, all_frames_keypoints, names, series, angles,
                   norm_angles>>

(* normalize_time_series(angles) *)
NormalizeTimeSeries ==
    /\ fn = "normalize_time_series"
    /\ pc = "call"
    /\ LET r == normalize_time_series(angles)
       IN  /\ norm_angles' = r.value
           /\ exc' = r.exc
           /\ pc' = Outcome(r.exc)
    /\ UNCHANGED <<fn, data, peaks, valleys, expected_reps, repaired, segments,
                   stats, all_frames_keypoints, names, series, clean_ts, angles>>

Next ==
    \/ SegmentSeries
    \/ SegmentSeriesAgain
    \/ CalculateStatisticsVariables
    \/ CalculateMovementAngles
    \/ CalculateMovementPositions
    \/ CleanTimeSeries
    \/ NormalizeTimeSeries

Spec == Init /\ [][Next]_vars

-----------------------------------------------------------------------------
(* Properties of segment_series *)

SegmentSeriesReturned == fn = "segment_series" /\ pc = "return"

(* Where segment i (1-based) starts in data, and where it ends (exclusive):
   its slice starts at the i-th boundary and holds Len(segments[i]) samples *)
SegStart(i) == SliceBound(Len(data), repaired[i])
SegEnd(i) == SegStart(i) + Len(segments[i])

RECURSIVE Concat(_)
Concat(ss) == IF ss = <<>> THEN <<>> ELSE ss[1] \o Concat(Tail(ss))

(* C1: the segments segment_series returns are contiguous and do not
   overlap: the exclusive end index of segment i in data is the start index
   of segment i+1. *)
C1_SegmentsContiguous ==
    SegmentSeriesReturned =>
        \A i \in 1..(Len(segments) - 1) : SegEnd(i) = SegStart(i + 1)

(* C1 witness: a call returned two or more segments, none of them empty *)
C1_Witness ==
    /\ SegmentSeriesReturned
    /\ Len(segments) >= 2
    /\ \A i \in 1..Len(segments) : segments[i] # <<>>

(* C2: the segments of one call, concatenated in order, are data[s:e] with
   s = 0 if valleys[0] > peaks[0] and valleys[0] otherwise, and
   e = len(data)-1 if valleys[-1] < peaks[-1] and valleys[-1] otherwise. *)
C2_RoundTrip ==
    SegmentSeriesReturned =>
        LET s == IF valleys[1] > peaks[1] THEN 0 ELSE valleys[1]
            e == IF Last(valleys) < Last(peaks) THEN Len(data) - 1
                 ELSE Last(valleys)
        IN  Concat(segments) = Slice(data, s, e)

(* C2 witness: both boundaries were repaired and two segments came back *)
C2_Witness ==
    /\ SegmentSeriesReturned
    /\ valleys[1] > peaks[1]
    /\ Last(valleys) < Last(peaks)
    /\ Len(segments) >= 2
    /\ Concat(segments) # <<>>

AtScenario1 ==
    /\ SegmentSeriesReturned
    /\ data = Scenario1.data
    /\ peaks = Scenario1.peaks
    /\ valleys = Scenario1.valleys
    /\ expected_reps = Scenario1.expected_reps

(* C3 as stated: on scenario 1 the call returns two segments of length 4 and
   5, covering indices [0,4) and [4,8], the second holding the final sample
   at index 8. *)
C3_Scenario1AsStated ==
    AtScenario1 =>
        /\ Len(segments) = 2
        /\ segments[1] = <<10, 20, 30, 20>>
        /\ Len(segments[2]) = 5
        /\ segments[2] = <<10, 20, 30, 20, 10>>

(* C3 amended: on scenario 1 the call returns two segments of length 4 and
   4, covering indices [0,4) and [4,8); the final sample at index 8 is in no
   segment. *)
C3_Scenario1HalfOpen ==
    AtScenario1 =>
        /\ Len(segments) = 2
        /\ Len(segments[1]) = 4
        /\ Len(segments[2]) = 4
        /\ segments[1] = SubSeq(data, 1, 4)
        /\ segments[2] = SubSeq(data, 5, 8)
        /\ SegStart(1) = 0 /\ SegEnd(1) = 4
        /\ SegStart(2) = 4 /\ SegEnd(2) = 8

(* C3 witness: the call on scenario 1 has returned *)
C3_Witness == AtScenario1 /\ segments # <<>>

(* C4: segment_series never silently returns fewer segments than
   expected_reps: a call that returns, returns at least expected_reps
   segments (the other outcome allowed is a reported failure). *)
C4_NeverFewerThanExpected ==
    SegmentSeriesReturned => Len(segments) >= expected_reps

(* C9: the remediation step is a no-op: two calls that differ only in
   expected_reps end the same way, with equal segment lists. *)
C9_ExpectedRepsIgnored ==
    [][(/\ fn = "segment_series" /\ fn' = "segment_series"
        /\ pc # "call"
        /\ data' = data /\ peaks' = peaks /\ valleys' = valleys
        /\ expected_reps' # expected_reps)
       => (pc' = pc /\ exc' = exc /\ segments' = segments)]_vars

(* C9 witness: a call returned fewer segments than expected_reps, so its
   remediation step ran, and it returned some segment *)
C9_Witness ==
    /\ SegmentSeriesReturned
    /\ Len(segments) < expected_reps
    /\ Len(segments) >= 1

(* C11: segment_series called with an empty peak list or an empty valley
   list aborts with a raw IndexError at the first boundary check (line 22),
   before any repair, and returns no segment list: neither an empty result
   nor a named precondition failure. *)
C11_EmptyListsRaiseIndexError ==
    (fn = "segment_series" /\ pc # "call" /\ (peaks = <<>> \/ valleys = <<>>))
    => /\ pc = "raise"
       /\ exc = "IndexError"
       /\ repaired = valleys
       /\ segments = <<>>

(* C11 witness: a call on a non-empty series with valleys but no peak has
   raised *)
C11_Witness ==
    /\ fn = "segment_series"
    /\ pc = "raise"
    /\ data # <<>>
    /\ peaks = <<>>
    /\ valleys # <<>>

StrictlyIncreasing(s) == \A i \in 1..(Len(s) - 1) : s[i] < s[i + 1]
InBounds(s, n) == \A i \in 1..Len(s) : 0 <= s[i] /\ s[i] < n

(* C10: for non-empty, strictly increasing, in-bounds peaks and valleys the
   valley list after the prepend-0 and append-(len(data)-1) steps is strictly
   increasing and in bounds, every returned segment is non-empty, and there
   are len(repaired valleys) - 1 segments. *)
C10_RepairWellFormed ==
    (/\ SegmentSeriesReturned
     /\ StrictlyIncreasing(peaks) /\ InBounds(peaks, Len(data))
     /\ StrictlyIncreasing(valleys) /\ InBounds(valleys, Len(data)))
    => /\ StrictlyIncreasing(repaired)
       /\ InBounds(repaired, Len(data))
       /\ \A i \in 1..Len(segments) : segments[i] # <<>>
       /\ Len(segments) = Len(repaired) - 1

(* C10 witness: only the trailing boundary was appended *)
C10_Witness ==
    /\ SegmentSeriesReturned
    /\ valleys[1] <= peaks[1]
    /\ Last(valleys) < Last(peaks)
    /\ repaired = Append(valleys, Len(data) - 1)

-----------------------------------------------------------------------------
(* Properties of the per-frame series and of cleaning *)

MovementReturned ==
    /\ fn \in {"calculate_movement_angles", "calculate_movement_positions"}
    /\ pc = "return"

(* The keypoint names the call needs: three for an angle, two for a distance *)
Required ==
    IF fn = "calculate_movement_angles" THEN {names[1], names[2], names[3]}
    ELSE {names[1], names[2]}

Absent(frame, name) == \A k \in 1..Len(frame) : frame[k].name # name

(* C5: calculate_movement_angles and calculate_movement_positions return one
   entry per frame, in frame order, and entry i is None exactly when a
   required keypoint is absent from frame i. *)
C5_OneEntryPerFrame ==
    MovementReturned =>
        /\ Len(series) = Len(all_frames_keypoints)
        /\ \A i \in 1..Len(all_frames_keypoints) :
              (series[i] = None) <=>
              (\E n \in Required : Absent(all_frames_keypoints[i], n))

(* C5 witness: a series of two or more entries, one None and one not *)
C5_Witness ==
    /\ MovementReturned
    /\ Len(series) >= 2
    /\ \E i, j \in 1..Len(series) : series[i] = None /\ series[j] # None

Cleaned == fn = "clean_time_series"

Kept(ts) == {i \in 1..Len(ts) : ts[i] # None}

(* The k-th smallest index of a set of indices *)
KthOf(S, k) == CHOOSE i \in S : Cardinality({j \in S : j <= i}) = k

(* C6: clean_time_series(ts) is the subsequence of the non-None entries of
   ts in their order: it holds no None, its length is len(ts) minus the
   number of None entries, and a ts with exactly one None comes back one
   shorter with that index removed. *)
C6_CleanDropsExactlyNone ==
    Cleaned =>
        LET kept == Kept(series)
            n == Len(series)
        IN  /\ \A k \in 1..Len(clean_ts) : clean_ts[k] # None
            /\ Len(clean_ts) = n - Cardinality((1..n) \ kept)
            /\ Len(clean_ts) <= n
            /\ \A k \in 1..Len(clean_ts) : clean_ts[k] = series[KthOf(kept, k)]
            /\ \A m \in 1..n :
                  ((1..n) \ kept = {m}) =>
                  clean_ts = SubSeq(series, 1, m - 1) \o SubSeq(series, m + 1, n)

(* C6 witness: a series with exactly one None, and a zero-valued entry kept *)
C6_Witness ==
    /\ Cleaned
    /\ Cardinality((1..Len(series)) \ Kept(series)) = 1
    /\ \E k \in 1..Len(clean_ts) : IsZero(clean_ts[k])

-----------------------------------------------------------------------------
(* Properties of the statistics and of normalization *)

StatisticsReturned == fn = "calculate_statistics_variables" /\ pc = "return"

(* C7: calculate_statistics_variables returns one record per segment in the
   same order; the record at 0-based position k has Repetition = k+1 and
   duration = the number of elements of segment k. *)
C7_OneRecordPerSegment ==
    StatisticsReturned =>
        /\ Len(stats) = Len(segments)
        /\ \A k \in 1..Len(segments) :
              /\ stats[k].Repetition = k
              /\ stats[k].duration = Len(segments[k])

(* C7 witness: two segments of different lengths were given *)
C7_Witness ==
    /\ StatisticsReturned
    /\ Len(stats) >= 2
    /\ Len(segments[1]) # Len(segments[2])

IsNaN(q) == q[1] = 0 /\ q[2] = 0

Constant(a) == a # <<>> /\ \A i \in 1..Len(a) : a[i] = a[1]

(* C8: on a series whose values are all equal, normalize_time_series either
   fails with an error or returns a series of defined zeros; it never
   returns NaN. *)
C8_ConstantSeriesDefined ==
    (fn = "normalize_time_series" /\ pc # "call" /\ Constant(angles)) =>
        \/ pc = "raise"
        \/ /\ Len(norm_angles) = Len(angles)
           /\ \A i \in 1..Len(norm_angles) :
                 norm_angles[i][1] = 0 /\ ~IsNaN(norm_angles[i])

====
